---------------------------- MODULE Spec2Model ----------------------------
(* The books collection of queries.js and the shell statements the script *)
(* issues against it.  A document is a record, the collection is the      *)
(* sequence of its documents in natural (insertion) order, prices are     *)
(* integer cents.  Every statement the script executes is one action.     *)
(* The statements are executed in the order of the script, top to bottom, *)
(* each of them once.  The collection the script meets is not known: it   *)
(* may be empty or hold documents already, some left by an earlier run.   *)
EXTENDS Integers, Sequences, FiniteSets, TLC

VARIABLES
    books,        \* the documents of db.books, in natural order
    indexes,      \* the indexes of db.books
    nextId,       \* the next identifier the storage layer assigns
    pc,           \* the number of the statement to execute next
    seed,         \* db.books as it was before the first statement
    prev,         \* db.books as it was before the last statement
    prevIndexes,  \* the indexes as they were before the last statement
    lastOp,       \* the statement issued last
    result        \* what that statement returned

vars ==
    <<books, indexes, nextId, pc, seed, prev, prevIndexes, lastOp, result>>

(* ------------------------------ bounds ------------------------------ *)

\* the number of documents the collection may hold before the script runs
MaxSeedLen == 3

(* ---------------------- documents of the script ---------------------- *)

Catcher ==
    [title |-> "The Catcher in the Rye", author |-> "J.D. Salinger",
     genre |-> "Literary Fiction", publicationYear |-> 1951, price |-> 999,
     reviews |-> <<>>]

Dune ==
    [title |-> "Dune", author |-> "Frank Herbert", genre |-> "Science Fiction",
     publicationYear |-> 1965, price |-> 1450,
     reviews |-> <<[user |-> "Zoe", rating |-> 5, comment |-> "Epic!"]>>]

Sapiens ==
    [title |-> "Sapiens: A Brief History of Humankind",
     author |-> "Yuval Noah Harari", genre |-> "Non-Fiction",
     publicationYear |-> 2011, price |-> 1875,
     reviews |-> <<[user |-> "Frank", rating |-> 5, comment |-> "Eye-opening."]>>]

GraceReview ==
    [user |-> "Grace", rating |-> 4, comment |-> "Still relevant today."]

CatcherNewPrice == 1099
SciFiIncrement == 100
YearBound == 1900

\* Documents a collection may hold before the script runs, besides the
\* script's own: the ones its filters look for (title "1984", author "George
\* Orwell" or "Harper Lee", genre "Classic", a rating of 5, a review by
\* Alice, a year before 1900, the search words "classic timeless").  The
\* book titled "1984" has a review already, so that the $push meets an
\* array that is not empty.
Orwell1984 ==
    [title |-> "1984", author |-> "George Orwell", genre |-> "Classic",
     publicationYear |-> 1949, price |-> 1299,
     reviews |-> <<[user |-> "Bob", rating |-> 3, comment |-> "Chilling."]>>]

OldClassic ==
    [title |-> "Timeless Tales", author |-> "Harper Lee", genre |-> "Classic",
     publicationYear |-> 1899, price |-> 750,
     reviews |-> <<[user |-> "Alice", rating |-> 5, comment |-> "Loved it"]>>]

(* ----------------------------- helpers ----------------------------- *)

RECURSIVE SumSeq(_)
SumSeq(s) == IF s = <<>> THEN 0 ELSE Head(s) + SumSeq(Tail(s))

RECURSIVE SelectIdx(_, _)
\* the subsequence of s at the positions of the set keep, in order
SelectIdx(s, keep) ==
    IF s = <<>> THEN <<>>
    ELSE LET n == Len(s)
             front == SelectIdx(SubSeq(s, 1, n - 1), keep)
         IN IF n \in keep THEN Append(front, s[n]) ELSE front

Min(a, b) == IF a < b THEN a ELSE b
Max(a, b) == IF a > b THEN a ELSE b

IsPrefix(s, t) == Len(s) <= Len(t) /\ SubSeq(t, 1, Len(s)) = s

\* the storage layer assigns the identifier on creation
WithId(d, id) ==
    [_id |-> id, title |-> d.title, author |-> d.author, genre |-> d.genre,
     publicationYear |-> d.publicationYear, price |-> d.price,
     reviews |-> d.reviews]

RECURSIVE WithIds(_, _)
WithIds(ds, first) ==
    IF ds = <<>> THEN <<>>
    ELSE <<WithId(Head(ds), first)>> \o WithIds(Tail(ds), first + 1)


(* ------------------------- filter predicates ------------------------- *)
(* A filter document is a record: its op names the operator, as the     *)
(* script writes it in JSON.                                             *)

FAll == [op |-> "all"]
FEq(f, v) == [op |-> "eq", field |-> f, value |-> v]
FGt(f, v) == [op |-> "gt", field |-> f, value |-> v]
FLt(f, v) == [op |-> "lt", field |-> f, value |-> v]
FAnd(fs) == [op |-> "and", subs |-> fs]
FOr(fs) == [op |-> "or", subs |-> fs]
\* "reviews.<f>": v and reviews: {$elemMatch: {<f>: v}}: some element has f = v
FElem(f, v) == [op |-> "elem", field |-> f, value |-> v]
FText(ws) == [op |-> "text", words |-> ws]

\* the terms a text index keeps of a title or an author: lower case, stop
\* words dropped, stemmed
Tokens(s) ==
    CASE s = "The Catcher in the Rye" -> {"catcher", "rye"}
      [] s = "J.D. Salinger" -> {"j", "d", "saling"}
      [] s = "Dune" -> {"dune"}
      [] s = "Frank Herbert" -> {"frank", "herbert"}
      [] s = "Sapiens: A Brief History of Humankind" ->
             {"sapien", "brief", "histori", "humankind"}
      [] s = "Yuval Noah Harari" -> {"yuval", "noah", "harari"}
      [] s = "1984" -> {"1984"}
      [] s = "George Orwell" -> {"georg", "orwel"}
      [] s = "Timeless Tales" -> {"timeless", "tale"}
      [] s = "Harper Lee" -> {"harper", "lee"}
      [] OTHER -> {}

SearchWords == {"classic", "timeless"}

RECURSIVE Matches(_, _)
Matches(d, f) ==
    CASE f.op = "all" -> TRUE
      [] f.op = "eq" -> d[f.field] = f.value
      [] f.op = "gt" -> d[f.field] > f.value
      [] f.op = "lt" -> d[f.field] < f.value
      [] f.op = "and" -> \A k \in 1..Len(f.subs) : Matches(d, f.subs[k])
      [] f.op = "or" -> \E k \in 1..Len(f.subs) : Matches(d, f.subs[k])
      [] f.op = "elem" ->
             \E k \in 1..Len(d.reviews) : d.reviews[k][f.field] = f.value
      [] f.op = "text" ->
             (Tokens(d.title) \cup Tokens(d.author)) \cap f.words # {}

MatchIdx(bks, f) == {i \in 1..Len(bks) : Matches(bks[i], f)}

\* the first match in natural order
FirstMatch(bks, f) ==
    CHOOSE i \in MatchIdx(bks, f) : \A j \in MatchIdx(bks, f) : i <= j

(* ------------------------------ writes ------------------------------ *)

InsertOne(bks, d, id) == Append(bks, WithId(d, id))

InsertMany(bks, ds, first) == bks \o WithIds(ds, first)

USet(f, v) == [op |-> "set", field |-> f, value |-> v]
UInc(f, v) == [op |-> "inc", field |-> f, value |-> v]
UPush(f, v) == [op |-> "push", field |-> f, value |-> v]

\* $push adding at the front of the array
ApplyUpdatePushFront(d, u) ==
    CASE u.op = "set" -> [d EXCEPT ![u.field] = u.value]
      [] u.op = "inc" -> [d EXCEPT ![u.field] = @ + u.value]
      [] u.op = "push" -> [d EXCEPT ![u.field] = <<u.value>> \o @]

ApplyUpdate(d, u) ==
    CASE u.op = "set" -> [d EXCEPT ![u.field] = u.value]
      [] u.op = "inc" -> [d EXCEPT ![u.field] = @ + u.value]
      [] u.op = "push" -> [d EXCEPT ![u.field] = Append(@, u.value)]

\* updateOne run as an upsert: with no match a document is created from the
\* filter and the update
UpdateOneUpsert(bks, f, u) ==
    IF MatchIdx(bks, f) = {}
    THEN Append(bks,
             ApplyUpdate([[_id |-> 0, title |-> "", author |-> "", genre |-> "",
                           publicationYear |-> 0, price |-> 0, reviews |-> <<>>]
                             EXCEPT ![f.field] = f.value], u))
    ELSE [bks EXCEPT ![FirstMatch(bks, f)] = ApplyUpdate(@, u)]

\* updateOne mistaken for updateMany: every match is updated
UpdateOneAllMatches(bks, f, u) ==
    [i \in 1..Len(bks) |->
        IF Matches(bks[i], f) THEN ApplyUpdate(bks[i], u) ELSE bks[i]]

UpdateOne(bks, f, u) ==
    IF MatchIdx(bks, f) = {} THEN bks
    ELSE [bks EXCEPT ![FirstMatch(bks, f)] = ApplyUpdate(@, u)]

\* updateMany mistaken for updateOne: only the first match is updated
UpdateManyFirstOnly(bks, f, u) ==
    IF MatchIdx(bks, f) = {} THEN bks
    ELSE [bks EXCEPT ![FirstMatch(bks, f)] = ApplyUpdate(@, u)]

UpdateMany(bks, f, u) ==
    [i \in 1..Len(bks) |->
        IF Matches(bks[i], f) THEN ApplyUpdate(bks[i], u) ELSE bks[i]]

\* matchedCount counts the documents the filter selected, modifiedCount the
\* ones the update changed; no statement of the script asks for an upsert
UpdateOneResult(bks, f, u) ==
    [matchedCount |-> IF MatchIdx(bks, f) = {} THEN 0 ELSE 1,
     modifiedCount |->
         Cardinality({i \in 1..Len(bks) : UpdateOne(bks, f, u)[i] # bks[i]}),
     upsertedCount |-> 0]

UpdateManyResult(bks, f, u) ==
    [matchedCount |-> Cardinality(MatchIdx(bks, f)),
     modifiedCount |->
         Cardinality({i \in 1..Len(bks) : UpdateMany(bks, f, u)[i] # bks[i]}),
     upsertedCount |-> 0]

DeleteOne(bks, f) ==
    IF MatchIdx(bks, f) = {} THEN bks
    ELSE SelectIdx(bks, (1..Len(bks)) \ {FirstMatch(bks, f)})

\* deleteMany mistaken for deleteOne: only the first match is removed
DeleteManyFirstOnly(bks, f) ==
    IF MatchIdx(bks, f) = {} THEN bks
    ELSE SelectIdx(bks, (1..Len(bks)) \ {FirstMatch(bks, f)})

DeleteMany(bks, f) == SelectIdx(bks, (1..Len(bks)) \ MatchIdx(bks, f))

DeleteResult(bks, after) == [deletedCount |-> Len(bks) - Len(after)]

(* ------------------------------- reads ------------------------------- *)

\* find mistaken for findOne: only the first match is returned
FindFirstOnly(bks, f) ==
    IF MatchIdx(bks, f) = {} THEN <<>> ELSE <<bks[FirstMatch(bks, f)]>>

Find(bks, f) == SelectIdx(bks, MatchIdx(bks, f))

Project(d, fields) == [k \in fields |-> d[k]]

ProjectAll(s, fields) == [i \in 1..Len(s) |-> Project(s[i], fields)]

Skip(s, n) == SubSeq(s, n + 1, Len(s))

Limit(s, n) == SubSeq(s, 1, Min(n, Len(s)))

\* binary order of the titles the collection can hold
TitleRank(t) ==
    CASE t = "1984" -> 1
      [] t = "Dune" -> 2
      [] t = "Sapiens: A Brief History of Humankind" -> 3
      [] t = "The Catcher in the Rye" -> 4
      [] t = "Timeless Tales" -> 5

\* the direction of the key ignored: every sort ascending
KeyCmpAscending(a, b, k) ==
    CASE k.kind = "num" ->
           IF a[k.field] < b[k.field] THEN -1
           ELSE IF a[k.field] > b[k.field] THEN 1 ELSE 0
      [] k.kind = "str" ->
           IF TitleRank(a[k.field]) < TitleRank(b[k.field]) THEN -1
           ELSE IF TitleRank(a[k.field]) > TitleRank(b[k.field]) THEN 1
           ELSE 0
      [] k.kind = "ratio" ->
           LET l == a[k.field].num * b[k.field].den
               r == b[k.field].num * a[k.field].den
           IN IF l < r THEN -1 ELSE IF l > r THEN 1 ELSE 0

\* a sort key: [field, dir (1 ascending, -1 descending), kind], where a
\* "ratio" value is an exact quotient [num, den]
KeyCmp(a, b, k) ==
    LET raw ==
          CASE k.kind = "num" ->
                 IF a[k.field] < b[k.field] THEN -1
                 ELSE IF a[k.field] > b[k.field] THEN 1 ELSE 0
            [] k.kind = "str" ->
                 IF TitleRank(a[k.field]) < TitleRank(b[k.field]) THEN -1
                 ELSE IF TitleRank(a[k.field]) > TitleRank(b[k.field]) THEN 1
                 ELSE 0
            [] k.kind = "ratio" ->
                 LET l == a[k.field].num * b[k.field].den
                     r == b[k.field].num * a[k.field].den
                 IN IF l < r THEN -1 ELSE IF l > r THEN 1 ELSE 0
    IN k.dir * raw

RECURSIVE InOrder(_, _, _)
\* a may come before b under the sort keys: not after it on the first key
\* that tells them apart
InOrder(a, b, keys) ==
    IF keys = <<>> THEN TRUE
    ELSE LET c == KeyCmp(a, b, Head(keys))
         IN IF c < 0 THEN TRUE
            ELSE IF c > 0 THEN FALSE
            ELSE InOrder(a, b, Tail(keys))

RECURSIVE OrdersOf(_, _, _)
\* the sorted arrangements of the elements of s at the positions idx: any
\* element that no other has to precede may come first
OrdersOf(s, idx, keys) ==
    IF idx = {} THEN {<<>>}
    ELSE UNION {{<<s[i]>> \o t : t \in OrdersOf(s, idx \ {i}, keys)} :
                  i \in {j \in idx : \A k \in idx : InOrder(s[j], s[k], keys)}}

\* every order a sort may return: the order of ties is the engine's choice
SortOrders(s, keys) == OrdersOf(s, 1..Len(s), keys)

RECURSIVE FirstOf(_, _, _, _)
\* a cursor that carries a sort and a limit: the engine picks the document
\* that comes first, then the first of the rest, and stops after n of them
FirstOf(s, idx, keys, n) ==
    IF idx = {} \/ n = 0 THEN {<<>>}
    ELSE UNION {{<<s[i]>> \o t : t \in FirstOf(s, idx \ {i}, keys, n - 1)} :
                  i \in {j \in idx : \A k \in idx : InOrder(s[j], s[k], keys)}}

SortLimit(s, keys, n) == FirstOf(s, 1..Len(s), keys, n)

RECURSIVE SetToSeq(_)
SetToSeq(S) ==
    IF S = {} THEN <<>>
    ELSE LET x == CHOOSE y \in S : TRUE IN <<x>> \o SetToSeq(S \ {x})

(* ---------------------------- aggregation ---------------------------- *)

\* $count emits one document, and none at all when no document reaches it
CountStage(s) == IF s = <<>> THEN <<>> ELSE <<[totalBooks |-> Len(s)]>>

\* $sum: 1 lost: every group counts one
GroupCountOnes(s, f) ==
    {[_id |-> v, bookCount |-> 1] : v \in {s[i][f] : i \in 1..Len(s)}}

\* $group by a field with $sum: 1; the order of the groups is the engine's
\* choice, so the output is the set of the group documents
GroupCount(s, f) ==
    {[_id |-> v, bookCount |-> Cardinality({i \in 1..Len(s) : s[i][f] = v})] :
        v \in {s[i][f] : i \in 1..Len(s)}}

PriceSum(s) == SumSeq([i \in 1..Len(s) |-> s[i].price])

\* $group by genre with $avg of the price, the average kept as the exact
\* quotient num / den
GroupAvgPrice(s) ==
    {[_id |-> g,
      averagePrice |->
          [num |-> PriceSum(SelectIdx(s, {i \in 1..Len(s) : s[i].genre = g})),
           den |-> Cardinality({i \in 1..Len(s) : s[i].genre = g})]] :
        g \in {s[i].genre : i \in 1..Len(s)}}

\* $project title, numberOfReviews: {$size: "$reviews"}, _id: 0
ProjectSize(s) ==
    [i \in 1..Len(s) |->
        [title |-> s[i].title, numberOfReviews |-> Len(s[i].reviews)]]

RECURSIVE Unwind(_)
\* $unwind "$reviews": one document per element of the array, in order; a
\* document with an empty array yields none
Unwind(s) ==
    IF s = <<>> THEN <<>>
    ELSE LET d == Head(s)
         IN [k \in 1..Len(d.reviews) |-> [d EXCEPT !.reviews = d.reviews[k]]]
            \o Unwind(Tail(s))

RatingSum(s) == SumSeq([i \in 1..Len(s) |-> s[i].reviews.rating])

\* $group by "$title" with $avg of the rating and $sum: 1
GroupRatings(u) ==
    {[_id |-> t,
      avgRating |->
          [num |-> RatingSum(SelectIdx(u, {i \in 1..Len(u) : u[i].title = t})),
           den |-> Cardinality({i \in 1..Len(u) : u[i].title = t})],
      totalReviews |-> Cardinality({i \in 1..Len(u) : u[i].title = t})] :
        t \in {u[i].title : i \in 1..Len(u)}}

\* {$round: [q, 2]} in hundredths: to the nearest, a half to the even one
Round2(q) ==
    LET n == 100 * q.num
        lo == n \div q.den
        r == n % q.den
    IN IF 2 * r < q.den THEN lo
       ELSE IF 2 * r > q.den THEN lo + 1
       ELSE IF lo % 2 = 0 THEN lo ELSE lo + 1

\* the average-rating pipeline: every sequence it may return
AverageRatings(bks) ==
    LET grouped == GroupRatings(Unwind(bks))
        kept == {g \in grouped : g.totalReviews > 0}
        sorted == SortOrders(SetToSeq(kept),
                      <<[field |-> "avgRating", dir |-> -1, kind |-> "ratio"]>>)
    IN {[i \in 1..Len(o) |->
            [bookTitle |-> o[i]._id, averageRating |-> Round2(o[i].avgRating),
             totalReviews |-> o[i].totalReviews]] : o \in sorted}

ByPriceDesc == <<[field |-> "price", dir |-> -1, kind |-> "num"]>>

\* find({}, {title, price}).sort({price: -1}).limit(3): the cursor is
\* given its sort and its limit before it runs; what it may return
Top3Find(bks) ==
    {ProjectAll(o, {"title", "price"}) :
        o \in SortLimit(Find(bks, FAll), ByPriceDesc, 3)}

\* the stages of a pipeline run one after the other, each on the whole
\* output of the one before
SortStage(streams, keys) == UNION {SortOrders(o, keys) : o \in streams}
LimitStage(streams, n) == {Limit(o, n) : o \in streams}
ProjectStage(streams, fields) == {ProjectAll(o, fields) : o \in streams}

\* [$sort price -1, $limit 3, $project title author price]
Top3Aggregate(bks) ==
    ProjectStage(LimitStage(SortStage({bks}, ByPriceDesc), 3),
                 {"title", "author", "price"})

\* find({}).skip(2).limit(2)
SkipLimitFind(bks) == Limit(Skip(Find(bks, FAll), 2), 2)

(* ------------------------------ indexes ------------------------------ *)

IdIndex == [name |-> "_id_", key |-> <<<<"_id", "1">>>>]
YearIndex == [name |-> "publicationYear_1", key |-> <<<<"publicationYear", "1">>>>]
GenrePriceIndex ==
    [name |-> "genre_1_price_-1", key |-> <<<<"genre", "1">>, <<"price", "-1">>>>]
TextIndex ==
    [name |-> "title_text_author_text",
     key |-> <<<<"title", "text">>, <<"author", "text">>>>]

HasTextIndex(ix) == \E x \in ix : \E k \in 1..Len(x.key) : x.key[k][2] = "text"

(* --------------------------- the statements --------------------------- *)

\* the documents the collection may hold before the script runs
SampleBooks == {Catcher, Dune, Orwell1984, OldClassic}

RECURSIVE Arrangements(_, _)
\* the sequences of at most n different elements of S
Arrangements(S, n) ==
    IF n = 0 THEN {<<>>}
    ELSE {<<>>} \cup
         UNION {{<<d>> \o t : t \in Arrangements(S \ {d}, n - 1)} : d \in S}

SeedCollections ==
    {WithIds(s, 1) : s \in Arrangements(SampleBooks, MaxSeedLen)}

Init ==
    /\ books \in SeedCollections
    /\ indexes = {IdIndex}
    /\ nextId = Len(books) + 1
    /\ pc = 1
    /\ seed = books
    /\ prev = books
    /\ prevIndexes = indexes
    /\ lastOp = "none"
    /\ result = <<>>

\* the k-th statement of the script is executed, once the k - 1 before it
\* have been; it leaves the collection as after, the indexes as ix, and
\* returns res; one identifier is used up for every document created
Issue(k, op, after, ix, res) ==
    /\ pc = k
    /\ pc' = k + 1
    /\ books' = after
    /\ indexes' = ix
    /\ nextId' = nextId + Max(0, Len(after) - Len(books))
    /\ prev' = books
    /\ prevIndexes' = indexes
    /\ lastOp' = op
    /\ result' = res
    /\ UNCHANGED seed

InsertOneCatcher ==
    Issue(1, "insertOne", InsertOne(books, Catcher, nextId), indexes,
          [acknowledged |-> TRUE, insertedId |-> nextId])

InsertManyDuneSapiens ==
    Issue(2, "insertMany", InsertMany(books, <<Dune, Sapiens>>, nextId), indexes,
          [acknowledged |-> TRUE, insertedIds |-> <<nextId, nextId + 1>>])

FindAll == Issue(3, "findAll", books, indexes, Find(books, FAll))

AuthorOrwell == FEq("author", "George Orwell")

FindByAuthor ==
    Issue(4, "findByAuthor", books, indexes, Find(books, AuthorOrwell))

FindTitleAuthor ==
    Issue(5, "findTitleAuthor", books, indexes,
          ProjectAll(Find(books, FAll), {"title", "author"}))

TitleCatcher == FEq("title", "The Catcher in the Rye")
SetCatcherPrice == USet("price", CatcherNewPrice)

UpdateOneSetPrice ==
    Issue(6, "updateOneSet", UpdateOne(books, TitleCatcher, SetCatcherPrice),
          indexes, UpdateOneResult(books, TitleCatcher, SetCatcherPrice))

GenreSciFi == FEq("genre", "Science Fiction")
IncSciFiPrice == UInc("price", SciFiIncrement)

UpdateManyIncPrice ==
    Issue(7, "updateManyInc", UpdateMany(books, GenreSciFi, IncSciFiPrice),
          indexes, UpdateManyResult(books, GenreSciFi, IncSciFiPrice))

Title1984 == FEq("title", "1984")
PushGraceReview == UPush("reviews", GraceReview)

UpdateOnePushReview ==
    Issue(8, "updateOnePush", UpdateOne(books, Title1984, PushGraceReview),
          indexes, UpdateOneResult(books, Title1984, PushGraceReview))

DeleteOneCatcher ==
    Issue(9, "deleteOne", DeleteOne(books, TitleCatcher), indexes,
          DeleteResult(books, DeleteOne(books, TitleCatcher)))

YearBefore(y) == FLt("publicationYear", y)

DeleteManyOld ==
    Issue(10, "deleteMany", DeleteMany(books, YearBefore(YearBound)), indexes,
          DeleteResult(books, DeleteMany(books, YearBefore(YearBound))))

RecentAndCheap == FAnd(<<FGt("publicationYear", 1950), FLt("price", 1500)>>)

FindRecentCheap ==
    Issue(11, "findRecentCheap", books, indexes, Find(books, RecentAndCheap))

OrwellOrLee ==
    FOr(<<FEq("author", "George Orwell"), FEq("author", "Harper Lee")>>)

FindOrAuthors ==
    Issue(12, "findOrAuthors", books, indexes, Find(books, OrwellOrLee))

ClassicRated5 == FAnd(<<FEq("genre", "Classic"), FElem("rating", 5)>>)

FindClassicRated5 ==
    Issue(13, "findClassicRated5", books, indexes, Find(books, ClassicRated5))

ByYearThenTitle ==
    <<[field |-> "publicationYear", dir |-> 1, kind |-> "num"],
      [field |-> "title", dir |-> 1, kind |-> "str"]>>

FindSortedYearTitle ==
    \E o \in SortOrders(Find(books, FAll), ByYearThenTitle) :
        Issue(14, "findSortedYearTitle", books, indexes, o)

\* the sort done in place on the stored documents
FindTop3SortingInPlace ==
    \E o \in SortOrders(books, ByPriceDesc) :
        Issue(15, "findTop3", o, indexes,
              ProjectAll(Limit(o, 3), {"title", "price"}))

FindTop3Expensive ==
    \E r \in Top3Find(books) : Issue(15, "findTop3", books, indexes, r)

FindSkipLimit ==
    Issue(16, "findSkipLimit", books, indexes, SkipLimitFind(books))

ReviewByAlice == FElem("user", "Alice")

FindReviewByAlice ==
    Issue(17, "findReviewByAlice", books, indexes, Find(books, ReviewByAlice))

AggCount == Issue(18, "aggCount", books, indexes, CountStage(books))

AggGroupByAuthor ==
    Issue(19, "aggGroupByAuthor", books, indexes, GroupCount(books, "author"))

AggAvgPriceByGenre ==
    Issue(20, "aggAvgPriceByGenre", books, indexes, GroupAvgPrice(books))

BySizeDesc == <<[field |-> "numberOfReviews", dir |-> -1, kind |-> "num"]>>

AggNumberOfReviews ==
    \E o \in SortOrders(ProjectSize(books), BySizeDesc) :
        Issue(21, "aggNumberOfReviews", books, indexes, o)

AggAverageRating ==
    \E r \in AverageRatings(books) :
        Issue(22, "aggAverageRating", books, indexes, r)

AggTop3Expensive ==
    \E r \in Top3Aggregate(books) : Issue(23, "aggTop3", books, indexes, r)

\* createIndex returns the index's name; an index that exists is kept
CreateIndexYear ==
    Issue(24, "createIndexYear", books, indexes \cup {YearIndex},
          YearIndex.name)

CreateIndexGenrePrice ==
    Issue(25, "createIndexGenrePrice", books, indexes \cup {GenrePriceIndex},
          GenrePriceIndex.name)

CreateIndexText ==
    Issue(26, "createIndexText", books, indexes \cup {TextIndex},
          TextIndex.name)

\* $text needs a text index: without one the engine refuses the query
FindText ==
    Issue(27, "findText", books, indexes,
          IF HasTextIndex(indexes) THEN Find(books, FText(SearchWords))
          ELSE [error |-> "text index required for $text query"])

GetIndexes == Issue(28, "getIndexes", books, indexes, indexes)

\* every statement the script executes (lines 222 and 225 are comments)
Next ==
    \/ InsertOneCatcher
    \/ InsertManyDuneSapiens
    \/ FindAll
    \/ FindByAuthor
    \/ FindTitleAuthor
    \/ UpdateOneSetPrice
    \/ UpdateManyIncPrice
    \/ UpdateOnePushReview
    \/ DeleteOneCatcher
    \/ DeleteManyOld
    \/ FindRecentCheap
    \/ FindOrAuthors
    \/ FindClassicRated5
    \/ FindSortedYearTitle
    \/ FindTop3Expensive
    \/ FindSkipLimit
    \/ FindReviewByAlice
    \/ AggCount
    \/ AggGroupByAuthor
    \/ AggAvgPriceByGenre
    \/ AggNumberOfReviews
    \/ AggAverageRating
    \/ AggTop3Expensive
    \/ CreateIndexYear
    \/ CreateIndexGenrePrice
    \/ CreateIndexText
    \/ FindText
    \/ GetIndexes

Spec == Init /\ [][Next]_vars

(* The script only names dropIndex and dropIndexes, in the comments of     *)
(* lines 222 and 225; what they do is taken from the operation contract:   *)
(* drop-index(es) takes an index name or nothing, removes index metadata   *)
(* and returns nothing.                                                    *)

\* dropIndex("publicationYear_1"): the index of that name is removed
DropIndexYear ==
    Issue(29, "dropIndexYear", books,
          {x \in indexes : x.name # YearIndex.name}, <<>>)

\* dropIndexes(): every index is removed but the one on the identifier
DropIndexes ==
    Issue(30, "dropIndexes", books, {x \in indexes : x = IdIndex}, <<>>)

\* the statements of the script, followed by the two drops
NextWithDrops == Next \/ DropIndexYear \/ DropIndexes

SpecWithDrops == Init /\ [][NextWithDrops]_vars

(* ------------------------------ claims ------------------------------ *)

IndexOps ==
    {"createIndexYear", "createIndexGenrePrice", "createIndexText"}

DropOps == {"dropIndexYear", "dropIndexes"}

ReadOps ==
    {"findAll", "findByAuthor", "findTitleAuthor", "findRecentCheap",
     "findOrAuthors", "findClassicRated5", "findSortedYearTitle", "findTop3",
     "findSkipLimit", "findReviewByAlice", "aggCount", "aggGroupByAuthor",
     "aggAvgPriceByGenre", "aggNumberOfReviews", "aggAverageRating", "aggTop3",
     "findText", "getIndexes"}

TitlesTried ==
    {"The Catcher in the Rye", "Dune", "1984", "Timeless Tales", "Unknown"}
PricesTried == {CatcherNewPrice, 1450, 0}
GenresTried == {"Science Fiction", "Classic", "Non-Fiction", "Poetry"}
DeltasTried == {SciFiIncrement, 1, -50}
YearsTried == {YearBound, 1950, 1966, 2100}
SkipsTried == {0, 1, 2, 3, 6}
LimitsTried == {1, 2, 3}

OtherFieldsSame(a, b) ==
    /\ a._id = b._id
    /\ a.title = b.title
    /\ a.author = b.author
    /\ a.genre = b.genre
    /\ a.publicationYear = b.publicationYear
    /\ a.reviews = b.reviews

\* after is before with the price of the first document titled t set to p,
\* and nothing else changed
SetPriceOnly(before, after, t, p) ==
    LET hits == {i \in 1..Len(before) : before[i].title = t}
    IN /\ Len(after) = Len(before)
       /\ \A i \in 1..Len(before) :
             IF i \in hits /\ \A j \in hits : i <= j
             THEN after[i].price = p /\ OtherFieldsSame(before[i], after[i])
             ELSE after[i] = before[i]

\* C1: updateOne({title: T}, {$set: {price: P}}) gives the first document
\* titled T the price P and changes nothing else: its other fields and every
\* other document, the other documents titled T included, stay as they were.
C1_SetPriceFrame ==
    /\ lastOp = "updateOneSet" =>
          SetPriceOnly(prev, books, Catcher.title, CatcherNewPrice)
    /\ \A t \in TitlesTried, p \in PricesTried :
          SetPriceOnly(books, UpdateOne(books, FEq("title", t), USet("price", p)),
                       t, p)

C1_Witness ==
    /\ lastOp = "updateOneSet"
    /\ result.matchedCount = 1
    /\ result.modifiedCount = 1
    /\ \E i, j \in 1..Len(books) :
          /\ i < j
          /\ books[i].title = Catcher.title
          /\ books[j].title = Catcher.title
          /\ books[i].price = CatcherNewPrice
          /\ books[j].price = Catcher.price
    /\ \E i \in 1..Len(books) : books[i].title # Catcher.title

\* after is before with d added to the price of every document of genre g
IncOnly(before, after, g, d) ==
    /\ Len(after) = Len(before)
    /\ \A i \in 1..Len(before) :
          IF before[i].genre = g
          THEN /\ after[i].price = before[i].price + d
               /\ OtherFieldsSame(before[i], after[i])
          ELSE after[i] = before[i]

\* C2: updateMany({genre: G}, {$inc: {price: D}}) adds exactly D to the price
\* of every document of genre G and leaves the others untouched; Dune,
\* inserted at 14.50, is found by its title at 15.50 after one such update
\* by 1.00.
C2_IncPrice ==
    /\ lastOp = "updateManyInc" =>
          /\ IncOnly(prev, books, "Science Fiction", SciFiIncrement)
          /\ \A i \in 1..Len(prev) :
                prev[i].title = "Dune" /\ prev[i].price = 1450 =>
                   \E k \in 1..Len(Find(books, FEq("title", "Dune"))) :
                      /\ Find(books, FEq("title", "Dune"))[k]._id = prev[i]._id
                      /\ Find(books, FEq("title", "Dune"))[k].price = 1550
    /\ \A g \in GenresTried, d \in DeltasTried :
          IncOnly(books, UpdateMany(books, FEq("genre", g), UInc("price", d)),
                  g, d)

C2_Witness ==
    /\ lastOp = "updateManyInc"
    /\ result.matchedCount = 2
    /\ \E i \in 1..Len(books) :
          /\ books[i].title = "Dune"
          /\ prev[i].price = 1450
          /\ books[i].price = 1550
    /\ \E i \in 1..Len(books) : books[i].genre # "Science Fiction"

\* after is before without the documents published before y, the others
\* unchanged and in their order, and the same filter finds nothing in it
DeletedBefore(before, after, y) ==
    /\ after = SelectSeq(before, LAMBDA d : d.publicationYear >= y)
    /\ Find(after, YearBefore(y)) = <<>>

\* C3: deleteMany({publicationYear: {$lt: Y}}) removes all and only the
\* documents published before Y, and a find with the same filter right
\* after it returns nothing.
C3_DeleteManyExact ==
    /\ lastOp = "deleteMany" => DeletedBefore(prev, books, YearBound)
    /\ \A y \in YearsTried :
          DeletedBefore(books, DeleteMany(books, YearBefore(y)), y)

C3_Witness ==
    /\ lastOp = "deleteMany"
    /\ result.deletedCount = 1
    /\ Len(books) >= 2
    /\ \E i \in 1..Len(prev) : prev[i].publicationYear < YearBound
    /\ \A i \in 1..Len(books) : books[i].publicationYear >= YearBound

\* x is the document d as stored under the identifier id
StoredAs(x, d, id) ==
    /\ x._id = id
    /\ x.title = d.title
    /\ x.author = d.author
    /\ x.genre = d.genre
    /\ x.publicationYear = d.publicationYear
    /\ x.price = d.price
    /\ x.reviews = d.reviews

\* find({title: d.title}) returns the document stored from d under id and
\* nothing else
FoundAlone(bks, d, id) ==
    LET r == Find(bks, FEq("title", d.title))
    IN Len(r) = 1 /\ StoredAs(r[1], d, id)

\* find({title: d.title}) returns the document stored from d under id once,
\* together with exactly the other documents of that title
FoundAmongTitle(bks, d, id) ==
    LET r == Find(bks, FEq("title", d.title))
    IN /\ Cardinality({k \in 1..Len(r) : StoredAs(r[k], d, id)}) = 1
       /\ \A k \in 1..Len(r) : r[k].title = d.title
       /\ Len(r) = Cardinality({i \in 1..Len(bks) : bks[i].title = d.title})

NoneTitled(bks, t) == \A i \in 1..Len(bks) : bks[i].title # t

\* C4 as claimed: after an insert, find by the inserted title returns the
\* inserted document, every field as inserted, and no other document.
C4_RoundTripAlone ==
    /\ lastOp = "insertOne" => FoundAlone(books, Catcher, result.insertedId)
    /\ lastOp = "insertMany" =>
          /\ FoundAlone(books, Dune, result.insertedIds[1])
          /\ FoundAlone(books, Sapiens, result.insertedIds[2])

\* C4, amended: after an insert, find by the inserted title returns the
\* inserted document, every field as inserted, exactly once, together with
\* exactly the other documents that carry the same title; it is the only
\* document returned when no document of that title was there before.
C4_RoundTripAmongTitle ==
    /\ lastOp = "insertOne" =>
          /\ FoundAmongTitle(books, Catcher, result.insertedId)
          /\ NoneTitled(prev, Catcher.title) =>
                FoundAlone(books, Catcher, result.insertedId)
    /\ lastOp = "insertMany" =>
          /\ FoundAmongTitle(books, Dune, result.insertedIds[1])
          /\ FoundAmongTitle(books, Sapiens, result.insertedIds[2])
          /\ NoneTitled(prev, Dune.title) =>
                FoundAlone(books, Dune, result.insertedIds[1])
          /\ NoneTitled(prev, Sapiens.title) =>
                FoundAlone(books, Sapiens, result.insertedIds[2])

C4_Witness ==
    /\ lastOp = "insertOne"
    /\ Len(Find(books, FEq("title", Catcher.title))) = 2
    /\ Find(books, FEq("title", Catcher.title))[1]._id < result.insertedId
    /\ StoredAs(Find(books, FEq("title", Catcher.title))[2], Catcher,
                result.insertedId)
    /\ Len(books) = 3

RECURSIVE SumCounts(_)
SumCounts(g) ==
    IF g = {} THEN 0
    ELSE LET x == CHOOSE y \in g : TRUE IN x.bookCount + SumCounts(g \ {x})

\* g holds one document per author of bks, with that author's number of
\* documents, and the counts add up to the size of bks
GroupsExact(g, bks) ==
    /\ \A i \in 1..Len(bks) :
          Cardinality({x \in g : x._id = bks[i].author}) = 1
    /\ \A x \in g :
          /\ \E i \in 1..Len(bks) : bks[i].author = x._id
          /\ x.bookCount = Len(SelectSeq(bks, LAMBDA d : d.author = x._id))
    /\ SumCounts(g) = Len(bks)

PushOnly(before, after, t, r) ==
    LET hits == {i \in 1..Len(before) : before[i].title = t}
    IN /\ Len(after) = Len(before)
       /\ \A i \in 1..Len(before) :
             IF i \in hits /\ \A j \in hits : i <= j
             THEN /\ after[i].reviews = before[i].reviews \o <<r>>
                  /\ after[i]._id = before[i]._id
                  /\ after[i].price = before[i].price
             ELSE after[i] = before[i]

\* C6: whatever statement runs, the reviews of a document that is there
\* before and after the step only grow at the end, and the $push step
\* appends exactly the pushed review to the reviews of the matched document.
C6_ReviewsAppendOnly ==
    /\ \A i \in 1..Len(prev), j \in 1..Len(books) :
          prev[i]._id = books[j]._id =>
              IsPrefix(prev[i].reviews, books[j].reviews)
    /\ lastOp = "updateOnePush" => PushOnly(prev, books, "1984", GraceReview)
    /\ \A t \in TitlesTried :
          PushOnly(books, UpdateOne(books, FEq("title", t), PushGraceReview),
                   t, GraceReview)

\* the $push has met a review array that was not empty
C6_Witness ==
    /\ lastOp = "updateOnePush"
    /\ result.modifiedCount = 1
    /\ \E i \in 1..Len(books) :
          /\ books[i].title = "1984"
          /\ prev[i].reviews # <<>>
          /\ books[i].reviews = prev[i].reviews \o <<GraceReview>>
          /\ books[i].reviews[1] # GraceReview
          /\ books[i].reviews[Len(books[i].reviews)] = GraceReview
    /\ Len(books) >= 3

\* after holds the documents of before, in their order, every field as it
\* was
SameDocuments(before, after) ==
    /\ Len(after) = Len(before)
    /\ \A i \in 1..Len(before) :
          /\ OtherFieldsSame(before[i], after[i])
          /\ after[i].price = before[i].price
          /\ DOMAIN after[i] = DOMAIN before[i]

\* after is before with one index more at most, the one of the key given
\* and of the name returned
IndexAdded(before, after, key, name) ==
    /\ before \subseteq after
    /\ \E x \in after : x.key = key /\ x.name = name
    /\ \A x \in after \ before : x.key = key

\* C7: a find, an aggregation, createIndex, getIndexes, dropIndex and
\* dropIndexes leave every document of the collection and every field of it
\* as it was; a find, an aggregation and getIndexes leave the indexes as they
\* were too, createIndex adds the index of its key and nothing else, and
\* dropIndex and dropIndexes only take indexes away: the one named, and every
\* index the script created.
C7_ReadsAndIndexesKeepDocuments ==
    /\ lastOp \in ReadOps \cup IndexOps \cup DropOps =>
          SameDocuments(prev, books)
    /\ lastOp \in ReadOps => indexes = prevIndexes
    /\ lastOp = "getIndexes" => result = indexes /\ IdIndex \in result
    /\ lastOp = "createIndexYear" =>
          IndexAdded(prevIndexes, indexes, <<<<"publicationYear", "1">>>>, result)
    /\ lastOp = "createIndexGenrePrice" =>
          IndexAdded(prevIndexes, indexes,
                     <<<<"genre", "1">>, <<"price", "-1">>>>, result)
    /\ lastOp = "createIndexText" =>
          IndexAdded(prevIndexes, indexes,
                     <<<<"title", "text">>, <<"author", "text">>>>, result)
    /\ lastOp = "dropIndexYear" =>
          /\ indexes \subseteq prevIndexes
          /\ \A x \in prevIndexes : x \in indexes <=> x.name # "publicationYear_1"
    /\ lastOp = "dropIndexes" =>
          /\ indexes \subseteq prevIndexes
          /\ \A x \in indexes : x.name = "_id_"

\* the index on publicationYear dropped after the script has run on a
\* collection of several documents, the text index still there
C7_Witness ==
    /\ lastOp = "dropIndexYear"
    /\ YearIndex \in prevIndexes
    /\ YearIndex \notin indexes
    /\ HasTextIndex(indexes)
    /\ Len(books) >= 4
    /\ \E i \in 1..Len(books) : Len(books[i].reviews) = 2
    /\ books = prev

NoUpdate == [matchedCount |-> 0, modifiedCount |-> 0, upsertedCount |-> 0]
NoDelete == [deletedCount |-> 0]

\* C8: an update or a delete whose filter matches no document reports a
\* count of zero, creates no document and leaves the collection as it was;
\* on a collection that was empty before the script's statements, where only
\* The Catcher in the Rye, Dune and Sapiens are ever inserted, the $push on
\* title "1984" and the deleteMany of the books before 1900 are such
\* statements.
C8_ZeroMatchNoEffect ==
    /\ lastOp = "updateOneSet" /\ NoneTitled(prev, Catcher.title) =>
          result = NoUpdate /\ books = prev
    /\ lastOp = "updateManyInc"
         /\ (\A i \in 1..Len(prev) : prev[i].genre # "Science Fiction") =>
          result = NoUpdate /\ books = prev
    /\ lastOp = "updateOnePush" /\ NoneTitled(prev, "1984") =>
          result = NoUpdate /\ books = prev
    /\ lastOp = "deleteOne" /\ NoneTitled(prev, Catcher.title) =>
          result = NoDelete /\ books = prev
    /\ lastOp = "deleteMany"
         /\ (\A i \in 1..Len(prev) : prev[i].publicationYear >= YearBound) =>
          result = NoDelete /\ books = prev
    /\ seed = <<>> /\ lastOp = "updateOnePush" =>
          result = NoUpdate /\ books = prev
    /\ seed = <<>> /\ lastOp = "deleteMany" =>
          result = NoDelete /\ books = prev
    /\ \A t \in TitlesTried :
          NoneTitled(books, t) =>
             /\ UpdateOne(books, FEq("title", t), SetCatcherPrice) = books
             /\ UpdateOneResult(books, FEq("title", t), SetCatcherPrice) = NoUpdate
             /\ UpdateOne(books, FEq("title", t), PushGraceReview) = books
             /\ UpdateOneResult(books, FEq("title", t), PushGraceReview) = NoUpdate
             /\ DeleteOne(books, FEq("title", t)) = books
             /\ DeleteResult(books, DeleteOne(books, FEq("title", t))) = NoDelete
    /\ \A g \in GenresTried :
          (\A i \in 1..Len(books) : books[i].genre # g) =>
             /\ UpdateMany(books, FEq("genre", g), IncSciFiPrice) = books
             /\ UpdateManyResult(books, FEq("genre", g), IncSciFiPrice) = NoUpdate
    /\ \A y \in YearsTried :
          (\A i \in 1..Len(books) : books[i].publicationYear >= y) =>
             /\ DeleteMany(books, YearBefore(y)) = books
             /\ DeleteResult(books, DeleteMany(books, YearBefore(y))) = NoDelete

\* the $push of the script run in order on an empty collection
C8_Witness ==
    /\ seed = <<>>
    /\ lastOp = "updateOnePush"
    /\ result = NoUpdate
    /\ Len(books) = 3
    /\ books[1].title = Catcher.title /\ books[1].price = CatcherNewPrice
    /\ books[2].title = "Dune" /\ books[2].price = 1550
    /\ books[3].title = Sapiens.title

\* r holds the titles and prices of Min(3, N) documents of bks, the dearest
\* first, and no document left out is dearer than one of r
Top3Of(r, bks) ==
    /\ Len(r) = Min(3, Len(bks))
    /\ \A k \in 1..(Len(r) - 1) : r[k].price >= r[k + 1].price
    /\ \E pick \in [1..Len(r) -> 1..Len(bks)] :
          /\ \A k, l \in 1..Len(r) : k # l => pick[k] # pick[l]
          /\ \A k \in 1..Len(r) :
                /\ r[k].title = bks[pick[k]].title
                /\ r[k].price = bks[pick[k]].price
                /\ DOMAIN r[k] = {"title", "price"}
          /\ \A i \in 1..Len(bks), k \in 1..Len(r) :
                (\A l \in 1..Len(r) : pick[l] # i) => bks[i].price <= r[k].price

\* r holds the documents of bks after the first s of them, l at most
SkippedAndCapped(r, bks, s, l) ==
    /\ Len(r) = Min(l, Max(0, Len(bks) - s))
    /\ \A k \in 1..Len(r) : r[k] = bks[k + s]

\* r holds every document of bks once, by year and, within a year, by title
ByYearAndTitle(r, bks) ==
    /\ Len(r) = Len(bks)
    /\ \A i \in 1..Len(bks) :
          Cardinality({k \in 1..Len(r) : r[k] = bks[i]}) =
              Cardinality({j \in 1..Len(bks) : bks[j] = bks[i]})
    /\ \A k \in 1..(Len(r) - 1) :
          \/ r[k].publicationYear < r[k + 1].publicationYear
          \/ /\ r[k].publicationYear = r[k + 1].publicationYear
             /\ TitleRank(r[k].title) <= TitleRank(r[k + 1].title)

\* C9: a find returns the matching documents in the order of its sort keys,
\* without the first skip of them and limit of them at most:
\* find({}).skip(2).limit(2) returns the third and fourth documents,
\* Min(2, Max(0, N - 2)) of them; find({}).sort({price: -1}).limit(3) returns
\* Min(3, N) documents, the dearest first, none left out being dearer than
\* one returned, and they are the titles and prices the aggregation
\* [$sort price -1, $limit 3, $project] returns, up to the order of ties.
C9_SortSkipLimit ==
    /\ SkippedAndCapped(SkipLimitFind(books), books, 2, 2)
    /\ \A s \in SkipsTried, l \in LimitsTried :
          SkippedAndCapped(Limit(Skip(Find(books, FAll), s), l), books, s, l)
    /\ lastOp = "findSkipLimit" => SkippedAndCapped(result, books, 2, 2)
    /\ lastOp = "findSortedYearTitle" => ByYearAndTitle(result, books)
    /\ \A r \in Top3Find(books) : Top3Of(r, books)
    /\ lastOp = "findTop3" => Top3Of(result, books)
    /\ {ProjectAll(a, {"title", "price"}) : a \in Top3Aggregate(books)}
          = Top3Find(books)
    /\ lastOp = "aggTop3" =>
          /\ Top3Of(ProjectAll(result, {"title", "price"}), books)
          /\ \A r \in Top3Find(books) :
                /\ Len(r) = Len(result)
                /\ \A k \in 1..Len(r) : r[k].price = result[k].price

\* skip(2).limit(2) on five documents: the limit cuts the result short
C9_Witness ==
    /\ lastOp = "findSkipLimit"
    /\ Len(books) = 5
    /\ Len(result) = 2
    /\ result = <<books[3], books[4]>>
    /\ \E r \in Top3Find(books) : r[1].price > r[3].price
    /\ books[1].price < books[5].price
    /\ Cardinality(Top3Find(books)) = 1

\* r holds one document per document of bks that has reviews, with its
\* number of reviews and the mean of its ratings (in hundredths), and none
\* for a document without reviews
PerBook(r, bks) ==
    LET reviewed == {i \in 1..Len(bks) : bks[i].reviews # <<>>}
        ratings(i) == [k \in 1..Len(bks[i].reviews) |-> bks[i].reviews[k].rating]
        IsOf(x, i) ==
            /\ x.bookTitle = bks[i].title
            /\ x.totalReviews = Len(bks[i].reviews)
            /\ x.averageRating * Len(bks[i].reviews) = 100 * SumSeq(ratings(i))
    IN /\ Len(r) = Cardinality(reviewed)
       /\ \A i \in reviewed : \E k \in 1..Len(r) : IsOf(r[k], i)
       /\ \A k \in 1..Len(r) : \E i \in reviewed : IsOf(r[k], i)

\* C10: the average-rating pipeline returns exactly one document per Book
\* that has reviews, with that Book's number of reviews and the mean of its
\* ratings, and none for a Book without reviews.
C10_AveragePerBook ==
    lastOp = "aggAverageRating" => PerBook(result, books)

=============================================================================
